---- MODULE Spec2Model ----
(***************************************************************************)
(* Model of the SQL lexer of src/lexer.rs: the two recognizers that exist  *)
(* (lex_numeric, lex_character_delimited / lex_string) as operators that   *)
(* follow the code loop by loop, and the driver lex as a state machine.    *)
(* A buffer is a sequence of one-character strings; offsets are 0-based as *)
(* in the code, so byte k of the buffer is input[k + 1].                   *)
(***************************************************************************)
EXTENDS Integers, Sequences, FiniteSets, TLC

VARIABLES source, tokens, cur, pc, li, ret, result

vars == <<source, tokens, cur, pc, li, ret, result>>

(* ------------------------------ bounds --------------------------------- *)

\* longest buffer enumerated over Alphabet
MaxLen == 4

\* one representative of every character class the recognizers distinguish
Alphabet == {"1", ".", "e", "+", "'", "a", "\n"}

(* --------------------------- sample buffers ---------------------------- *)

SelectStmt == <<"S","E","L","E","C","T"," ","*"," ","F","R","O","M"," ","t",";">>
OBrien == <<"'","O","'","'","B","r","i","e","n","'">>
Unterminated == <<"'","u","n","t","e","r","m","i","n","a","t","e","d">>
SqlString == <<"'","S","Q","L","'">>
Integer123 == <<"1","2","3">>
Float314 == <<"3",".","1","4">>
Sci25e10 == <<"2",".","5","e","1","0">>
Sci1eMinus5 == <<"1","e","-","5">>
SciUpper == <<"7","E","+","2">>
OneTwoThree == <<"1",".","2",".","3">>
NumThenString == <<"1","2","'","a","b","'">>

Samples == {SelectStmt, OBrien, Unterminated, SqlString, Integer123, Float314,
            Sci25e10, Sci1eMinus5, SciUpper, OneTwoThree, NumThenString}

RECURSIVE SeqsUpTo(_)
SeqsUpTo(n) ==
    IF n = 0 THEN {<<>>}
    ELSE LET shorter == SeqsUpTo(n - 1)
         IN shorter \cup {Append(s, c) : s \in {t \in shorter : Len(t) = n - 1}, c \in Alphabet}

Buffers == SeqsUpTo(MaxLen) \cup Samples

(* ----------------------------- data model ------------------------------ *)

Location(line, col) == [line |-> line, col |-> col]

Cursor(pointer, loc) == [pointer |-> pointer, loc |-> loc]

Token(value, kind, loc) == [value |-> value, kind |-> kind, loc |-> loc]

\* Token::equals compares value and kind and ignores loc
equals(t, u) == t.value = u.value /\ t.kind = u.kind

\* Option<(Token, Cursor)>; an out-of-range index aborts the call
None == [tag |-> "None"]
Some(token, c) == [tag |-> "Some", token |-> token, cur |-> c]
Panic == [tag |-> "Panic"]

make_cursor == Cursor(0, Location(1, 1))

NoRet == [fn |-> "none"]
NoResult == [tag |-> "none"]

Digits == {"0", "1", "2", "3", "4", "5", "6", "7", "8", "9"}
ExpMarkers == {"e", "E"}
Signs == {"-", "+"}

(* ----------------------------- lex_numeric ----------------------------- *)

\* lines 185-193 without the test of lines 181-183
NumericFinishUnchecked(input, ic, c) ==
    Some(Token(SubSeq(input, ic.pointer + 1, c.pointer), "NumericLiteral", ic.loc), c)

\* lines 180-193: the exit of the scan
NumericFinish(input, ic, c) ==
    IF c.pointer = ic.pointer THEN None
    ELSE Some(Token(SubSeq(input, ic.pointer + 1, c.pointer), "NumericLiteral", ic.loc), c)

\* lines 142-144: a period when one was already seen
SecondPeriodTruncates(input, ic, c) == NumericFinish(input, ic, c)
SecondPeriod(input, ic, c) == None

\* lines 158-160: the exponent marker is the last byte
ExpMarkerLastTruncates(input, ic, c) == NumericFinish(input, ic, c)
ExpMarkerLast(input, ic, c) == None

\* lines 166-169: the sign after the exponent marker is consumed
NoSignAfterExp(c_next) == FALSE
SignAfterExp(c_next) == c_next \in Signs

\* line 154: no period is allowed after the exponent marker
PeriodFoundKept(period_found) == period_found
PeriodFoundAfterExp(period_found) == TRUE

RECURSIVE NumericLoop(_, _, _, _, _)
NumericLoop(input, ic, c0, period_found, exp_marker_found) ==
    IF ~(c0.pointer < Len(input)) THEN NumericFinish(input, ic, c0)
    ELSE
      LET c == input[c0.pointer + 1]
          c1 == [c0 EXCEPT !.loc.col = @ + 1]
          is_digit == c \in Digits
          is_period == c = "."
          is_exp_marker == c \in ExpMarkers
          step == [c1 EXCEPT !.pointer = @ + 1]
      IN
      IF c1.pointer = ic.pointer THEN
          IF ~is_digit /\ ~is_period THEN None
          ELSE NumericLoop(input, ic, step, is_period, exp_marker_found)
      ELSE IF is_period THEN
          IF period_found THEN SecondPeriod(input, ic, c1)
          ELSE NumericLoop(input, ic, step, TRUE, exp_marker_found)
      ELSE IF is_exp_marker THEN
          IF exp_marker_found THEN None
          ELSE IF c1.pointer = Len(input) - 1 THEN ExpMarkerLast(input, ic, c1)
          ELSE
            LET c_next == input[c1.pointer + 2]
                c2 == [c1 EXCEPT !.pointer = @ + 1, !.loc.col = @ + 1]
                c3 == IF SignAfterExp(c_next)
                      THEN [c2 EXCEPT !.pointer = @ + 1, !.loc.col = @ + 1]
                      ELSE c2
            IN NumericLoop(input, ic, c3, PeriodFoundAfterExp(period_found), TRUE)
      ELSE IF ~is_digit THEN NumericFinish(input, ic, c1)
      ELSE NumericLoop(input, ic, step, period_found, exp_marker_found)

lex_numeric(input, ic) == NumericLoop(input, ic, ic, FALSE, FALSE)

(* ----------------------- lex_character_delimited ----------------------- *)

\* line 224: the cursor returned with the token is the loop cursor, which is
\* on the closing delimiter
ClosingCursorPast(ic, c0) == [c0 EXCEPT !.pointer = @ + 1, !.loc.col = @ + 1]
ClosingCursorInput(ic, c0) == ic
ClosingCursor(ic, c0) == c0

RECURSIVE DelimitedLoop(_, _, _, _, _)
DelimitedLoop(input, ic, delimiter, c0, value) ==
    IF ~(c0.pointer < Len(input)) THEN None
    ELSE
      LET c == input[c0.pointer + 1] IN
      IF c = delimiter THEN
          IF c0.pointer + 1 >= Len(input) \/ input[c0.pointer + 2] # delimiter
          THEN Some(Token(value, "StringLiteral", ic.loc), ClosingCursor(ic, c0))
          ELSE DelimitedLoop(input, ic, delimiter,
                   [c0 EXCEPT !.pointer = @ + 3, !.loc.col = @ + 3],
                   Append(Append(value, delimiter), c))
      ELSE DelimitedLoop(input, ic, delimiter,
               [c0 EXCEPT !.pointer = @ + 1, !.loc.col = @ + 1],
               Append(value, c))

lex_character_delimited(input, ic, delimiter) ==
    IF Len(input) = 0 THEN None
    ELSE IF ~(ic.pointer < Len(input)) THEN Panic
    ELSE IF input[ic.pointer + 1] # delimiter THEN None
    ELSE DelimitedLoop(input, ic, delimiter,
             [ic EXCEPT !.pointer = @ + 1, !.loc.col = @ + 1], <<>>)

lex_string(input, ic) == lex_character_delimited(input, ic, "'")

(* ------------------------------- driver -------------------------------- *)

\* the recognizers the driver tries, in order (the others are commented out)
lexers == <<"lex_string", "lex_numeric">>

Apply(fn, input, ic) ==
    IF fn = "lex_string" THEN lex_string(input, ic) ELSE lex_numeric(input, ic)

Ok(ts) == [tag |-> "Ok", tokens |-> ts]

\* "Unable to lex token{hint} at {line}:{col}"
Err(ts, c) ==
    [tag |-> "Err", message |-> "Unable to lex token",
     hint |-> IF ts # <<>> THEN <<"after", ts[Len(ts)].value>> ELSE <<>>,
     line |-> c.loc.line, col |-> c.loc.col]

Init ==
    /\ source \in Buffers
    /\ tokens = <<>>
    /\ cur = make_cursor
    /\ pc = "idle"
    /\ li = 1
    /\ ret = NoRet
    /\ result = NoResult

\* a direct call of the public recognizer, as the unit tests make it
CallNumeric ==
    /\ pc = "idle"
    /\ \E p \in 0..(Len(source) + 1) :
         LET ic == Cursor(p, Location(1, p + 1))
         IN ret' = [fn |-> "lex_numeric", ic |-> ic, out |-> lex_numeric(source, ic)]
    /\ UNCHANGED <<source, tokens, cur, pc, li, result>>

CallString ==
    /\ pc = "idle"
    /\ \E p \in 0..(Len(source) + 1) :
         LET ic == Cursor(p, Location(1, p + 1))
         IN ret' = [fn |-> "lex_string", ic |-> ic, out |-> lex_string(source, ic)]
    /\ UNCHANGED <<source, tokens, cur, pc, li, result>>

\* lex is entered: lines 261-265
LexStart ==
    /\ pc = "idle"
    /\ tokens' = <<>>
    /\ cur' = Cursor(0, Location(1, 1))
    /\ ret' = NoRet
    /\ li' = 1
    /\ pc' = "loop"
    /\ UNCHANGED <<source, result>>

\* line 266, loop condition true: the lexers list is built
LexIterate ==
    /\ pc = "loop"
    /\ cur.pointer < Len(source)
    /\ li' = 1
    /\ pc' = "try"
    /\ UNCHANGED <<source, tokens, cur, ret, result>>

\* line 266, loop condition false: line 299
LexOk ==
    /\ pc = "loop"
    /\ ~(cur.pointer < Len(source))
    /\ result' = Ok(tokens)
    /\ pc' = "done"
    /\ UNCHANGED <<source, tokens, cur, li, ret>>

\* lines 276-284: the recognizer matches and its result is committed
LexMatch ==
    /\ pc = "try"
    /\ li <= Len(lexers)
    /\ LET out == Apply(lexers[li], source, cur) IN
         /\ out.tag = "Some"
         /\ ret' = [fn |-> lexers[li], ic |-> cur, out |-> out]
         /\ cur' = out.cur
         /\ tokens' = IF out.token.value # <<>> THEN Append(tokens, out.token) ELSE tokens
    /\ pc' = "loop"
    /\ UNCHANGED <<source, li, result>>

\* line 276: the recognizer returns None, the next one is tried
LexNoMatch ==
    /\ pc = "try"
    /\ li <= Len(lexers)
    /\ LET out == Apply(lexers[li], source, cur) IN
         /\ out.tag = "None"
         /\ ret' = [fn |-> lexers[li], ic |-> cur, out |-> out]
    /\ li' = li + 1
    /\ UNCHANGED <<source, tokens, cur, pc, result>>

\* lines 287-297: no recognizer matched
LexError ==
    /\ pc = "try"
    /\ li > Len(lexers)
    /\ result' = Err(tokens, cur)
    /\ pc' = "done"
    /\ UNCHANGED <<source, tokens, cur, li, ret>>

Next ==
    \/ CallNumeric
    \/ CallString
    \/ LexStart
    \/ LexIterate
    \/ LexOk
    \/ LexMatch
    \/ LexNoMatch
    \/ LexError

Spec == Init /\ [][Next]_vars

TypeOK ==
    /\ source \in Buffers
    /\ pc \in {"idle", "loop", "try", "done"}
    /\ li \in 1..(Len(lexers) + 1)
    /\ cur.pointer \in 0..Len(source)
    /\ result.tag \in {"none", "Ok", "Err"}

(* ------------------- reference notions for the claims ------------------ *)

NoNewline(s) == \A i \in 1..Len(s) : s[i] # "\n"

HasDelimiter(s) == \E i \in 1..Len(s) : s[i] = "'"

AllDigits(s) == Len(s) >= 1 /\ \A i \in 1..Len(s) : s[i] \in Digits

\* "" or "." digits+
FractionPart(s) == s = <<>> \/ (Len(s) >= 2 /\ s[1] = "." /\ AllDigits(Tail(s)))

\* "" or (e|E) (+|-)? digits+
ExponentPart(s) ==
    \/ s = <<>>
    \/ /\ Len(s) >= 2
       /\ s[1] \in ExpMarkers
       /\ \/ AllDigits(Tail(s))
          \/ Len(s) >= 3 /\ s[2] \in Signs /\ AllDigits(Tail(Tail(s)))

\* digits+ ("." digits+)? ((e|E) (+|-)? digits+)?
WellFormedNumeric(s) ==
    \E i \in 1..Len(s) : \E j \in i..Len(s) :
        /\ AllDigits(SubSeq(s, 1, i))
        /\ FractionPart(SubSeq(s, i + 1, j))
        /\ ExponentPart(SubSeq(s, j + 1, Len(s)))

\* 1-based index of the first delimiter at or after index i that is not the
\* first of a doubled pair, 0 when there is none
RECURSIVE ClosingIndex(_, _)
ClosingIndex(s, i) ==
    IF i > Len(s) THEN 0
    ELSE IF s[i] # "'" THEN ClosingIndex(s, i + 1)
    ELSE IF i + 1 <= Len(s) /\ s[i + 1] = "'" THEN ClosingIndex(s, i + 2)
    ELSE i

\* the text s[i..j] with every doubled delimiter replaced by one delimiter
RECURSIVE Unescaped(_, _, _)
Unescaped(s, i, j) ==
    IF i > j THEN <<>>
    ELSE IF s[i] = "'" /\ i + 1 <= j /\ s[i + 1] = "'"
         THEN <<"'">> \o Unescaped(s, i + 2, j)
         ELSE <<s[i]>> \o Unescaped(s, i + 1, j)

\* the buffer is 'body' with a non-empty body that holds no delimiter
SingleStringLiteral(s) ==
    /\ Len(s) >= 3
    /\ s[1] = "'"
    /\ s[Len(s)] = "'"
    /\ ~HasDelimiter(SubSeq(s, 2, Len(s) - 1))

NumericCall == pc = "idle" /\ ret.fn = "lex_numeric"
StringCall == pc = "idle" /\ ret.fn = "lex_string"
Finished == pc = "done"

(* -------------------------------- claims ------------------------------- *)

\* C1: lex("SELECT * FROM t;") succeeds with exactly the tokens
\* Keyword select, Symbol *, Keyword from, Identifier t, Symbol ; (by value and kind).
ExpectedSelect ==
    << Token(<<"s","e","l","e","c","t">>, "Keyword", Location(1, 1)),
       Token(<<"*">>, "Symbol", Location(1, 8)),
       Token(<<"f","r","o","m">>, "Keyword", Location(1, 10)),
       Token(<<"t">>, "Identifier", Location(1, 15)),
       Token(<<";">>, "Symbol", Location(1, 16)) >>

C1_SelectStatementLexes ==
    (Finished /\ source = SelectStmt) =>
        /\ result.tag = "Ok"
        /\ Len(result.tokens) = Len(ExpectedSelect)
        /\ \A i \in 1..Len(ExpectedSelect) : equals(result.tokens[i], ExpectedSelect[i])

\* C2: a string literal opened at the cursor and never closed gives an outcome
\* that differs from the "no match" outcome, and lex on such a buffer does not
\* end in the generic "Unable to lex token" error.
OpenedNotClosed(s, p) ==
    p < Len(s) /\ s[p + 1] = "'" /\ ClosingIndex(s, p + 2) = 0

C2_UnterminatedIsFatal ==
    /\ (StringCall /\ OpenedNotClosed(source, ret.ic.pointer)) => ret.out # None
    /\ (Finished /\ OpenedNotClosed(source, 0)) =>
           ~(result.tag = "Err" /\ result.message = "Unable to lex token")

\* C3: when the string recognizer succeeds, the returned offset is the index
\* just after the closing delimiter.
C3_CursorPastClosingDelimiter ==
    (StringCall /\ ret.out.tag = "Some") =>
        ret.out.cur.pointer = (ClosingIndex(source, ret.ic.pointer + 2) - 1) + 1

\* C4: the value of a terminated string literal is the text between the
\* delimiters with every doubled delimiter replaced by one delimiter.
C4_ValueUnescapesDoubledDelimiter ==
    (StringCall /\ ret.ic.pointer < Len(source) /\ source[ret.ic.pointer + 1] = "'"
                /\ ClosingIndex(source, ret.ic.pointer + 2) # 0) =>
        /\ ret.out.tag = "Some"
        /\ ret.out.token.value =
               Unescaped(source, ret.ic.pointer + 2, ClosingIndex(source, ret.ic.pointer + 2) - 1)

\* C5: lex on a buffer that is exactly one string literal 'body' succeeds with
\* the single token StringLiteral body.
C5_SingleStringLiteralLexes ==
    (Finished /\ SingleStringLiteral(source)) =>
        /\ result.tag = "Ok"
        /\ Len(result.tokens) = 1
        /\ result.tokens[1].kind = "StringLiteral"
        /\ result.tokens[1].value = SubSeq(source, 2, Len(source) - 1)


\* C6: on a buffer that is exactly a well-formed numeric literal, lex_numeric
\* started at offset 0 succeeds, ends at the buffer length and returns the
\* whole buffer as a NumericLiteral.
C6_WellFormedNumericFullyConsumed ==
    (NumericCall /\ ret.ic.pointer = 0 /\ WellFormedNumeric(source)) =>
        /\ ret.out.tag = "Some"
        /\ ret.out.cur.pointer = Len(source)
        /\ ret.out.token.kind = "NumericLiteral"
        /\ ret.out.token.value = source

C6_Witness ==
    /\ NumericCall
    /\ ret.ic.pointer = 0
    /\ WellFormedNumeric(source)
    /\ \E i \in 1..Len(source) : source[i] \in ExpMarkers /\ source[i + 1] \in Signs
    /\ ret.out.tag = "Some"

\* the bytes s[i..j] are digits with at most one period, and at least one byte
DigitsOnePeriod(s, i, j) ==
    /\ i <= j
    /\ \A k \in i..j : s[k] \in Digits \cup {"."}
    /\ Cardinality({k \in i..j : s[k] = "."}) <= 1

EndsWithExpMarker(s) == Len(s) >= 1 /\ s[Len(s)] \in ExpMarkers

\* C7: when the scan reaches an exponent marker that is the last byte of the
\* buffer, lex_numeric reports no match: it returns no token that ends at or
\* after that byte, and lex_numeric("1e") fails.
C7_ExpMarkerAtEndFails ==
    (NumericCall /\ EndsWithExpMarker(source)) =>
        /\ DigitsOnePeriod(source, ret.ic.pointer + 1, Len(source) - 1) => ret.out = None
        /\ ret.out.tag = "Some" => ret.out.cur.pointer < Len(source) - 1
        /\ (source = <<"1", "e">> /\ ret.ic.pointer = 0) => ret.out = None

C7_Witness ==
    /\ NumericCall
    /\ EndsWithExpMarker(source)
    /\ DigitsOnePeriod(source, ret.ic.pointer + 1, Len(source) - 1)
    /\ ret.out = None

\* the value v followed by the byte after it (when there is one)
WithNextByte(s, out) ==
    IF out.cur.pointer < Len(s) THEN Append(out.token.value, s[out.cur.pointer + 1])
    ELSE out.token.value

\* a period that comes after a period or after an exponent marker
PeriodAfterPeriod(v) ==
    \E i \in 1..Len(v) : \E j \in (i + 1)..Len(v) :
        v[i] \in ExpMarkers \cup {"."} /\ v[j] = "."

\* the bytes s[i..j-1] are digits but for one period or one exponent marker
\* (the marker not as first byte), and s[j] is a period
MeetsSecondPeriod(s, i, j) ==
    /\ i < j
    /\ j <= Len(s)
    /\ s[j] = "."
    /\ s[i] \in Digits \cup {"."}
    /\ \A k \in i..(j - 1) : s[k] \in Digits \cup {"."} \cup ExpMarkers
    /\ Cardinality({k \in i..(j - 1) : s[k] \notin Digits}) = 1

\* C8: a period met after a period (or an exponent marker) was seen makes
\* lex_numeric report no match instead of the prefix before it, and
\* lex("1.2.3") fails without ever holding a token "1.2".
C8_SecondPeriodAborts ==
    /\ NumericCall =>
          /\ (\E j \in 1..Len(source) : MeetsSecondPeriod(source, ret.ic.pointer + 1, j))
                 => ret.out = None
          /\ ret.out.tag = "Some" => ~PeriodAfterPeriod(WithNextByte(source, ret.out))
    /\ source = OneTwoThree =>
          /\ \A i \in 1..Len(tokens) : tokens[i].value # <<"1", ".", "2">>
          /\ Finished => result.tag = "Err"

C8_Witness ==
    /\ source = OneTwoThree
    /\ Finished
    /\ ret.fn = "lex_numeric"
    /\ ret.ic.pointer = 0
    /\ ret.out = None
    /\ result.tag = "Err"

\* C9: every token the driver appends carries the location of its first
\* byte: on a buffer without newlines, a token starting at offset k has
\* loc = (1, k + 1).
C9_TokenLocIsFirstByte ==
    [][(NoNewline(source) /\ tokens' # tokens) =>
          tokens'[Len(tokens')].loc = Location(1, cur.pointer + 1)]_vars

\* C10: when no recognizer matches, the error names the 1-indexed position of
\* the byte at the cursor: on a buffer without newlines, 1:(offset + 1).
C10_ErrorPositionIsCursorByte ==
    (Finished /\ result.tag = "Err" /\ NoNewline(source)) =>
        /\ result.line = 1
        /\ result.col = cur.pointer + 1

(* --------------------------- further claims ---------------------------- *)

\* the buffer is 'body' with a body (possibly empty) that holds no delimiter
QuotedBody(s) ==
    /\ Len(s) >= 2
    /\ s[1] = "'"
    /\ s[Len(s)] = "'"
    /\ ~HasDelimiter(SubSeq(s, 2, Len(s) - 1))

\* C11: on a buffer 'body' whose body holds no delimiter, lex_string started
\* at offset 0 returns StringLiteral body and a cursor whose offset is the
\* buffer length - 1, the index of the closing delimiter.
C11_StringCursorOnClosingDelimiter ==
    (StringCall /\ ret.ic.pointer = 0 /\ QuotedBody(source)) =>
        /\ ret.out.tag = "Some"
        /\ ret.out.token.kind = "StringLiteral"
        /\ ret.out.token.value = SubSeq(source, 2, Len(source) - 1)
        /\ ret.out.cur.pointer = Len(source) - 1

C11_Witness ==
    /\ StringCall
    /\ ret.ic.pointer = 0
    /\ source = SqlString
    /\ ret.out.tag = "Some"
    /\ ret.out.cur.pointer = 4

\* number of newline bytes among s[i..j]
Newlines(s, i, j) == Cardinality({k \in i..j : k <= Len(s) /\ s[k] = "\n"})

\* C12: every consumed newline adds one to the cursor's line: a recognizer
\* that consumed n newlines returns line = input line + n, and the driver's
\* cursor has line = 1 + the newlines before its offset.
C12_NewlineBumpsLine ==
    /\ (ret.fn # "none" /\ ret.out.tag = "Some") =>
           ret.out.cur.loc.line =
               ret.ic.loc.line + Newlines(source, ret.ic.pointer + 1, ret.out.cur.pointer)
    /\ pc # "idle" => cur.loc.line = 1 + Newlines(source, 1, cur.pointer)

\* C13: every consumed character advances the column by one: on a buffer
\* without newlines a successful recognizer call moves col by as much as the
\* offset, and the driver's cursor has col = offset + 1.
C13_ColumnFollowsOffset ==
    NoNewline(source) =>
        /\ (ret.fn # "none" /\ ret.out.tag = "Some") =>
               ret.out.cur.loc.col - ret.ic.loc.col = ret.out.cur.pointer - ret.ic.pointer
        /\ pc # "idle" => cur.loc.col = cur.pointer + 1

\* C14: a successful recognizer call returns an offset strictly greater than
\* the input offset and at most the buffer length; the driver's offset stays
\* within 0..len(buffer) and never decreases.
C14_OffsetAdvancesWithinBuffer ==
    [][/\ (ret'.fn # "none" /\ ret'.out.tag = "Some") =>
              /\ ret'.out.cur.pointer > ret'.ic.pointer
              /\ ret'.out.cur.pointer <= Len(source)
       /\ cur'.pointer >= cur.pointer
       /\ cur'.pointer \in 0..Len(source)]_vars

C14_Witness ==
    /\ pc = "loop"
    /\ Len(tokens) = 2
    /\ ret.out.tag = "Some"
    /\ cur = ret.out.cur
    /\ cur.pointer > ret.ic.pointer

\* C15: every successful recognizer call returns a token whose value is not
\* empty.
C15_ValueNonEmpty ==
    (ret.fn # "none" /\ ret.out.tag = "Some") => ret.out.token.value # <<>>

\* C15 as amended: a successful lex_numeric call returns a non-empty value,
\* and a successful lex_string call returns an empty value only for the empty
\* literal, where the closing delimiter directly follows the opening one.
C15_ValueEmptyOnlyForEmptyLiteral ==
    (ret.fn # "none" /\ ret.out.tag = "Some" /\ ret.out.token.value = <<>>) =>
        /\ ret.fn = "lex_string"
        /\ ret.out.cur.pointer = ret.ic.pointer + 1
        /\ source[ret.ic.pointer + 1] = "'"
        /\ source[ret.ic.pointer + 2] = "'"

C15_Witness ==
    /\ StringCall
    /\ ret.out.tag = "Some"
    /\ ret.out.token.value = <<>>
    /\ source = <<"'", "'">>

\* a step of the running driver
LexStep == LexIterate \/ LexOk \/ LexMatch \/ LexNoMatch \/ LexError

\* once entered, lex runs to its return: it is synchronous code
FairSpec == Spec /\ WF_vars(LexStep)

\* C16: lex terminates: every committed match strictly advances the cursor
\* within the buffer (so there are at most len(buffer) of them), and a running
\* driver reaches its return, with success or with an error.
C16_LexTerminates ==
    /\ [][(pc = "try" /\ pc' = "loop") =>
              /\ cur'.pointer > cur.pointer
              /\ cur'.pointer <= Len(source)]_vars
    /\ (pc \in {"loop", "try"}) ~> (Finished /\ result.tag \in {"Ok", "Err"})

C16_Witness ==
    /\ Finished
    /\ Len(tokens) = 2
    /\ result.tag = "Err"

\* s is digits, an exponent marker, a sign, and then the bytes of rest
MantissaExpSign(s, rest) ==
    /\ Len(s) >= 3 + Len(rest)
    /\ AllDigits(SubSeq(s, 1, Len(s) - Len(rest) - 2))
    /\ s[Len(s) - Len(rest) - 1] \in ExpMarkers
    /\ s[Len(s) - Len(rest)] \in Signs
    /\ SubSeq(s, Len(s) - Len(rest) + 1, Len(s)) = rest

\* C17: an exponent marker followed by a sign that is the last byte ("1e+")
\* makes lex_numeric fail, while a sign followed by a non-digit ("1e+x") gives
\* the token ending just after the sign, with the cursor on the non-digit.
C17_SignAtEndFails ==
    (NumericCall /\ ret.ic.pointer = 0) =>
        /\ MantissaExpSign(source, <<>>) => ret.out = None
        /\ MantissaExpSign(source, <<"a">>) =>
               /\ ret.out.tag = "Some"
               /\ ret.out.token.value = SubSeq(source, 1, Len(source) - 1)
               /\ ret.out.cur.pointer = Len(source) - 1

\* C18: lex_string returns "no match", without faulting, whenever the cursor
\* offset is at or beyond the buffer length.
C18_StringAtEndIsNoMatch ==
    (StringCall /\ ret.ic.pointer >= Len(source)) => ret.out = None

\* the value v obeys the shape of a numeric token
NumericShape(v) ==
    /\ Len(v) >= 1
    /\ v[1] \in Digits \cup {"."}
    /\ Cardinality({i \in 1..Len(v) : v[i] \in ExpMarkers}) <= 1
    /\ Cardinality({i \in 1..Len(v) : v[i] = "."}) <= 1
    /\ \A i \in 1..Len(v) : \A j \in (i + 1)..Len(v) : ~(v[i] \in ExpMarkers /\ v[j] = ".")
    /\ \A i \in 2..Len(v) :
          \/ v[i] \in Digits \cup {"."} \cup ExpMarkers
          \/ v[i] \in Signs /\ v[i - 1] \in ExpMarkers

\* C19: every NumericLiteral returned by lex_numeric has at most one exponent
\* marker, at most one period, no period after the marker, a digit or a period
\* first, and otherwise only digits, a period, a marker, or a sign right after
\* the marker.
C19_NumericValueShape ==
    (ret.fn = "lex_numeric" /\ ret.out.tag = "Some") =>
        /\ ret.out.token.kind = "NumericLiteral"
        /\ NumericShape(ret.out.token.value)

C19_Witness ==
    /\ NumericCall
    /\ ret.out.tag = "Some"
    /\ \E i \in 1..Len(ret.out.token.value) : ret.out.token.value[i] \in ExpMarkers
    /\ \E i \in 1..Len(ret.out.token.value) : ret.out.token.value[i] = "."

Whitespace == {" ", "\t", "\n"}

HasWhitespace(s) == \E i \in 1..Len(s) : s[i] \in Whitespace

\* C20: lex succeeds only on the empty buffer or when one lex_numeric match
\* from offset 0 consumes the whole buffer: a successful result holds at most
\* one token, a NumericLiteral equal to the buffer, and a buffer with a single
\* quote or whitespace gives an error.
C20_SuccessOnlyForOneNumeric ==
    Finished =>
        /\ result.tag = "Ok" =>
              \/ source = <<>> /\ result.tokens = <<>>
              \/ /\ Len(result.tokens) = 1
                 /\ result.tokens[1] = Token(source, "NumericLiteral", Location(1, 1))
                 /\ ret = [fn |-> "lex_numeric", ic |-> make_cursor,
                           out |-> Some(result.tokens[1], cur)]
                 /\ cur.pointer = Len(source)
        /\ (HasDelimiter(source) \/ HasWhitespace(source)) => result.tag = "Err"

C20_Witness ==
    /\ Finished
    /\ result.tag = "Ok"
    /\ Len(result.tokens) = 1
    /\ source = Sci25e10

====
